---- MODULE Spec2Model ----
(***************************************************************************)
(* RapidReach operational scripts.                                         *)
(*                                                                         *)
(* The repository holds independent command-line scripts.  Each one is     *)
(* modelled as its own state machine over its own variables:               *)
(*   - acceptance-test-runner.py   (SpecRunner)                            *)
(*   - update-time-estimates.py    (SpecEstimator)                         *)
(*   - script/generate_updates.py  (SpecPackager)                          *)
(*   - mqtt/scripts/test_mqtt_emqx.py  (SpecSmoke, SpecSmokeFair)          *)
(* Strings whose content the code inspects (substring tests, lower()) are  *)
(* sequences of one-character strings; strings the code only passes on     *)
(* are TLA+ strings.                                                       *)
(***************************************************************************)
EXTENDS Integers, Sequences, FiniteSets, TLC

VARIABLES
    \* ---- acceptance-test-runner.py ----
    jira_env,       \* which of JIRA_URL, JIRA_USER, JIRA_TOKEN are set
    pc,             \* position of the main thread
    conn,           \* MQTT connection: "none", "pending", "accepted", "refused"
    subscribed,     \* the response topic subscription has been issued
    responses,      \* self.responses: the list object currently bound
    gen,            \* identity of that list object = number of resets so far
    cb,             \* the network thread running on_message
    delivered,      \* number of messages the broker has delivered
    ti,             \* index of the current test case in TEST_IDS
    ci,             \* index of the current command of the test case
    response,       \* run_test_case local: value send_command returned
    test_passed,    \* run_test_case local
    results,        \* run_test_case local
    test_results,   \* self.test_results
    passed_count,   \* run_all_tests local
    failed_count,   \* run_all_tests local
    passed,         \* run_all_tests local: verdict of the current test case
    done_transition,\* update_jira_task local
    cmd_log,        \* history: publish calls and completed checks, in order
    window_log,     \* history of the current test case: per send_command call,
                    \* when the messages of its response arrived
    jira_log,       \* history of the current test case: issue-tracker requests
                    \* and their outcomes
    \* ---- update-time-estimates.py ----
    est_pc,             \* position in the script
    todo_tasks,         \* issues of the To Do search, in fetch order
    cat_i,              \* categorization loop: index of the next task
    simple_tasks,
    medium_tasks,
    complex_tasks,
    very_complex_tasks,
    simple_hours,       \* hours per task, in tenths of an hour
    medium_hours,
    complex_hours,
    very_complex_hours,
    total_hours,        \* in tenths of an hour
    upd_i,              \* update loop: index of the next task
    success_count,
    test_tasks,         \* issues of the Acceptance Test search
    test_hours_per_task,\* in tenths of an hour
    test_i,             \* test update loop: index of the next task
    test_success_count,
    http_log,           \* history: REST calls and their status
    printed,            \* history: HTTP statuses printed as errors
    \* ---- script/generate_updates.py ----
    pk_pc,              \* position in the script
    build_exists,       \* the build directory exists
    board_dirs,         \* names of the directories under the build directory
    rapid_fw_bin,       \* boards with rapidreach-fw/zephyr/zephyr.signed.bin
    zephyr_bin,         \* boards with zephyr/zephyr.signed.bin
    version_file,       \* lines of the VERSION file, or NoFile
    out_dir_exists,     \* the firmware_updates directory exists
    version,            \* the version string
    remaining,          \* boards the loop has yet to visit
    out_files,          \* files written to firmware_updates
    prepared_binaries,  \* target paths, in the order they were written
    \* ---- mqtt/scripts/test_mqtt_emqx.py ----
    sm_pc,              \* position of the main thread
    connected,          \* self.connected
    timeout,            \* connect local, in half seconds
    sm_ret,             \* what connect() returned: "none", "True", "False"
    sm_net,             \* position of the network thread
    sm_link,            \* the broker connection: "none", "pending", "up",
                        \* "refused", "down"
    connacks,           \* number of CONNACKs received so far
    sm_subs,            \* topics subscribed on the current connection
    rc0_seen,           \* history: on_connect has run with rc = 0
    polls,              \* history: iterations of the wait loop
    sm_calls,           \* history: publish_test_message calls
    sm_pub_log,         \* history: messages handed to the broker
    interrupted         \* history: KeyboardInterrupt was raised

runnerVars == <<jira_env, pc, conn, subscribed, responses, gen, cb, delivered,
                ti, ci, response, test_passed, results, test_results,
                passed_count, failed_count, passed, done_transition,
                cmd_log, window_log, jira_log>>

estVars == <<est_pc, todo_tasks, cat_i, simple_tasks, medium_tasks, complex_tasks,
             very_complex_tasks, simple_hours, medium_hours, complex_hours,
             very_complex_hours, total_hours, upd_i, success_count, test_tasks,
             test_hours_per_task, test_i, test_success_count, http_log, printed>>

pkVars == <<pk_pc, build_exists, board_dirs, rapid_fw_bin, zephyr_bin, version_file,
            out_dir_exists, version, remaining, out_files, prepared_binaries>>

smVars == <<sm_pc, connected, timeout, sm_ret, sm_net, sm_link, connacks, sm_subs,
            rc0_seen, polls, sm_calls, sm_pub_log, interrupted>>

\* The scripts share nothing: a step of one leaves the others' state alone.
notRunner == <<estVars, pkVars, smVars>>
notEstimator == <<runnerVars, pkVars, smVars>>
notPackager == <<runnerVars, estVars, smVars>>
notSmoke == <<runnerVars, estVars, pkVars>>

vars == <<runnerVars, estVars, pkVars, smVars>>

\* Bound: messages the broker delivers during one run.
MaxMsgs == 2

(***************************************************************************)
(* Strings as sequences of characters                                      *)
(***************************************************************************)
UPPER == <<"A","B","C","D","E","F","G","H","I","J","K","L","M",
           "N","O","P","Q","R","S","T","U","V","W","X","Y","Z">>
LOWERS == <<"a","b","c","d","e","f","g","h","i","j","k","l","m",
            "n","o","p","q","r","s","t","u","v","w","x","y","z">>

\* str.lower() on one character
LowerChar(c) ==
    IF \E i \in 1..26 : UPPER[i] = c
    THEN LOWERS[CHOOSE i \in 1..26 : UPPER[i] = c]
    ELSE c

\* str.lower()
lower(s) == [i \in 1..Len(s) |-> LowerChar(s[i])]

\* Python's  needle in hay  on strings
Contains(needle, hay) ==
    \E i \in 0..(Len(hay) - Len(needle)) :
        SubSeq(hay, i + 1, i + Len(needle)) = needle

\* '\n'.join(list)
RECURSIVE join(_)
join(list) ==
    IF list = <<>> THEN <<>>
    ELSE IF Len(list) = 1 THEN list[1]
    ELSE list[1] \o <<"\n">> \o join(Tail(list))

(***************************************************************************)
(* acceptance-test-runner.py                                               *)
(***************************************************************************)
PLAYING_TOK == <<"P","l","a","y","i","n","g">>
STATUS_TOK == <<"S","t","a","t","u","s",":">>
CHARGING_TOK == <<"C","h","a","r","g","i","n","g",":">>
PAY_STATUS == <<"S","T","A","T","U","S",":"," ","o","k">>
PAY_ERROR == <<"E","r","r">>

JIRA_VARS == {"JIRA_URL", "JIRA_USER", "JIRA_TOKEN"}

\* TEST_CASES: the first test case and a one-command test case of the table,
\* in the table's order.
TEST_IDS == <<"RDP-179", "RDP-187">>

TEST_CASES ==
    [id \in {"RDP-179", "RDP-187"} |->
        IF id = "RDP-179"
        THEN [commands |-> <<"rapidreach audio play /path/to/test.wav",
                             "rapidreach audio status">>,
              expected |-> <<PLAYING_TOK, STATUS_TOK>>]
        ELSE [commands |-> <<"rapidreach power charging">>,
              expected |-> <<CHARGING_TOK, STATUS_TOK>>]]

\* Payloads the device may send on the response topic.
Payloads == {PAY_STATUS, PAY_ERROR, <<>>}

DONE_LOWER == <<"d","o","n","e">>
NAME_DONE == <<"D","o","n","e">>
NAME_DONE_UPPER == <<"D","O","N","E">>
NAME_PROGRESS == <<"I","n"," ","P","r","o","g","r","e","s","s">>
NAME_UNDONE == <<"U","n","d","o","n","e">>

\* Bodies the transitions GET may return in ['transitions'].
TransitionLists ==
    { <<>>,
      << [id |-> "21", name |-> NAME_PROGRESS], [id |-> "25", name |-> NAME_UNDONE] >>,
      << [id |-> "21", name |-> NAME_PROGRESS], [id |-> "31", name |-> NAME_DONE] >>,
      << [id |-> "41", name |-> NAME_DONE_UPPER], [id |-> "31", name |-> NAME_DONE] >> }

\* HTTP status codes the issue tracker may answer with.
WorklogStatuses == {201, 400}
TransitionsGetStatuses == {200, 404}
TransitionPostStatuses == {204, 400}

\* Status recorded in jira_log for a request that raised instead of answering.
RAISED == 0

NumTests == Len(TEST_IDS)
CurrentId == TEST_IDS[ti]
CurrentInfo == TEST_CASES[CurrentId]

CbIdle == [pc |-> "idle", payload |-> <<>>, win |-> 0, ref |-> 0]

\* The send_command call whose wait window is open, 0 when none is.
OpenWindow == IF pc \in {"publish", "wait"} THEN gen ELSE 0

\* run_test_case, lines 264-276: the check of one command's response leaves
\* test_passed alone (TRUE) or sets it to False (FALSE).
\* Variant: the expected token is not lower-cased before the test.
found_expected_cased(resp, expected) ==
    \E i \in 1..Len(expected) : Contains(expected[i], lower(resp))

found_expected(resp, expected) ==
    \E i \in 1..Len(expected) : Contains(lower(expected[i]), lower(resp))

CommandOk(resp, expected) ==
    IF resp # <<>>
    THEN ~(~found_expected(resp, expected) /\ expected # <<>>)
    ELSE FALSE

\* update_jira_task, lines 324-329: id of the first transition named 'done',
\* "" for None.
FindDone(transitions) ==
    IF \E i \in 1..Len(transitions) : lower(transitions[i].name) = DONE_LOWER
    THEN transitions[CHOOSE i \in 1..Len(transitions) :
            /\ lower(transitions[i].name) = DONE_LOWER
            /\ \A j \in 1..(i - 1) : lower(transitions[j].name) # DONE_LOWER].id
    ELSE ""

RunnerRest ==
    /\ conn = "none"
    /\ subscribed = FALSE
    /\ responses = <<>>
    /\ gen = 0
    /\ cb = CbIdle
    /\ delivered = 0
    /\ ti = 1
    /\ ci = 1
    /\ response = <<>>
    /\ test_passed = TRUE
    /\ results = <<>>
    /\ test_results = <<>>
    /\ passed_count = 0
    /\ failed_count = 0
    /\ passed = FALSE
    /\ done_transition = ""
    /\ cmd_log = <<>>
    /\ window_log = <<>>
    /\ jira_log = <<>>

\* The script is launched, with any subset of the settings in its environment.
RunnerInit ==
    /\ jira_env \in SUBSET JIRA_VARS
    /\ pc = "main"
    /\ RunnerRest

\* The script is not launched.
RunnerIdle ==
    /\ jira_env = {}
    /\ pc = "off"
    /\ RunnerRest

netVars == <<conn, subscribed, cb, delivered>>
caseVars == <<ti, ci, response, test_passed, results, test_results,
              passed_count, failed_count, passed>>
histVars == <<cmd_log, window_log, jira_log>>

\* Variant: the missing settings are reported but the runner goes on.
MainEnvMissing_noexit ==
    /\ pc = "main"
    /\ jira_env # JIRA_VARS
    /\ pc' = "setup"
    /\ UNCHANGED <<jira_env, netVars, responses, gen, caseVars, done_transition, histVars>>
    /\ UNCHANGED notRunner

\* __main__, lines 417-425
MainEnvMissing ==
    /\ pc = "main"
    /\ jira_env # JIRA_VARS
    /\ pc' = "exit1"
    /\ UNCHANGED <<jira_env, netVars, responses, gen, caseVars, done_transition, histVars>>
    /\ UNCHANGED notRunner

MainStart ==
    /\ pc = "main"
    /\ jira_env = JIRA_VARS
    /\ pc' = "setup"
    /\ UNCHANGED <<jira_env, netVars, responses, gen, caseVars, done_transition, histVars>>
    /\ UNCHANGED notRunner

\* setup_mqtt, lines 198-211: connect() raises, run_all_tests returns (356-358)
SetupConnectRaises ==
    /\ pc = "setup"
    /\ pc' = "returned"
    /\ UNCHANGED <<jira_env, netVars, responses, gen, caseVars, done_transition, histVars>>
    /\ UNCHANGED notRunner

\* setup_mqtt: connect() and loop_start() succeed, then sleep(2)
SetupConnect ==
    /\ pc = "setup"
    /\ conn' = "pending"
    /\ pc' = "setup_sleep"
    /\ UNCHANGED <<jira_env, subscribed, cb, delivered, responses, gen, caseVars,
                   done_transition, histVars>>
    /\ UNCHANGED notRunner

\* setup_mqtt returns True after the sleep, whatever the callback thread did
SetupReturn ==
    /\ pc = "setup_sleep"
    /\ pc' = "loop"
    /\ UNCHANGED <<jira_env, netVars, responses, gen, caseVars, done_transition, histVars>>
    /\ UNCHANGED notRunner

\* run_test_case, lines 252-254
RunTestCaseBegin ==
    /\ pc = "loop"
    /\ ti <= NumTests
    /\ test_passed' = TRUE
    /\ results' = <<>>
    /\ ci' = 1
    /\ window_log' = <<>>
    /\ jira_log' = <<>>
    /\ pc' = "for_command"
    /\ UNCHANGED <<jira_env, netVars, responses, gen, ti, response, test_results,
                   passed_count, failed_count, passed, done_transition, cmd_log>>
    /\ UNCHANGED notRunner

\* send_command, line 235: self.responses = []
SendCommandReset ==
    /\ pc = "for_command"
    /\ ci <= Len(CurrentInfo.commands)
    /\ responses' = <<>>
    /\ gen' = gen + 1
    /\ cb' = cb
    /\ pc' = "publish"
    /\ UNCHANGED <<jira_env, conn, subscribed, delivered, caseVars, done_transition,
                   histVars>>
    /\ UNCHANGED notRunner

\* send_command, line 239: publish on the command topic
SendCommandPublish ==
    /\ pc = "publish"
    /\ cmd_log' = Append(cmd_log, [ev |-> "publish", test |-> CurrentId, cmd |-> ci,
                                     text |-> CurrentInfo.commands[ci]])
    /\ pc' = "wait"
    /\ UNCHANGED <<jira_env, netVars, responses, gen, caseVars, done_transition,
                   window_log, jira_log>>
    /\ UNCHANGED notRunner

\* Variant: a test case whose publish raises is reported but not counted.
SendCommandPublishRaises_uncounted ==
    /\ pc = "publish"
    /\ cmd_log' = Append(cmd_log, [ev |-> "raise", test |-> CurrentId, cmd |-> ci,
                                     text |-> CurrentInfo.commands[ci]])
    /\ ti' = ti + 1
    /\ pc' = "loop"
    /\ UNCHANGED <<jira_env, netVars, responses, gen, ci, response, test_passed,
                   results, test_results, passed_count, failed_count, passed,
                   done_transition, window_log, jira_log>>
    /\ UNCHANGED notRunner

\* publish raises; run_all_tests, lines 384-386, counts the test case failed
SendCommandPublishRaises ==
    /\ pc = "publish"
    /\ cmd_log' = Append(cmd_log, [ev |-> "raise", test |-> CurrentId, cmd |-> ci,
                                     text |-> CurrentInfo.commands[ci]])
    /\ failed_count' = failed_count + 1
    /\ ti' = ti + 1
    /\ pc' = "loop"
    /\ UNCHANGED <<jira_env, netVars, responses, gen, ci, response, test_passed,
                   results, test_results, passed_count, passed, done_transition,
                   window_log, jira_log>>
    /\ UNCHANGED notRunner

\* send_command, lines 242-244: after sleep(1), return '\n'.join(self.responses)
SendCommandReturn ==
    /\ pc = "wait"
    /\ response' = join([i \in 1..Len(responses) |-> responses[i].payload])
    /\ window_log' = Append(window_log,
                        [call |-> gen, test |-> CurrentId, cmd |-> ci,
                         wins |-> [i \in 1..Len(responses) |-> responses[i].win]])
    /\ pc' = "check"
    /\ UNCHANGED <<jira_env, netVars, responses, gen, ti, ci, test_passed, results,
                   test_results, passed_count, failed_count, passed,
                   done_transition, cmd_log, jira_log>>
    /\ UNCHANGED notRunner

\* Variant: a command whose check fails is sent again.
CheckResponse_retry ==
    /\ pc = "check"
    /\ results' = Append(results, [command |-> CurrentInfo.commands[ci],
                                    response |-> response])
    /\ test_passed' = (test_passed /\ CommandOk(response, CurrentInfo.expected))
    /\ cmd_log' = Append(cmd_log, [ev |-> "check", test |-> CurrentId, cmd |-> ci,
                                     text |-> CurrentInfo.commands[ci]])
    /\ ci' = IF CommandOk(response, CurrentInfo.expected) THEN ci + 1 ELSE ci
    /\ pc' = "for_command"
    /\ UNCHANGED <<jira_env, netVars, responses, gen, ti, response, test_results,
                   passed_count, failed_count, passed, done_transition,
                   window_log, jira_log>>
    /\ UNCHANGED notRunner

\* run_test_case, lines 258-276
CheckResponse ==
    /\ pc = "check"
    /\ results' = Append(results, [command |-> CurrentInfo.commands[ci],
                                    response |-> response])
    /\ test_passed' = (test_passed /\ CommandOk(response, CurrentInfo.expected))
    /\ cmd_log' = Append(cmd_log, [ev |-> "check", test |-> CurrentId, cmd |-> ci,
                                     text |-> CurrentInfo.commands[ci]])
    /\ ci' = ci + 1
    /\ pc' = "for_command"
    /\ UNCHANGED <<jira_env, netVars, responses, gen, ti, response, test_results,
                   passed_count, failed_count, passed, done_transition,
                   window_log, jira_log>>
    /\ UNCHANGED notRunner

\* run_test_case, lines 278-291, and run_all_tests, lines 369-374
RunTestCaseReturn ==
    /\ pc = "for_command"
    /\ ci > Len(CurrentInfo.commands)
    /\ test_results' = Append(test_results, [test |-> CurrentId,
                                              passed |-> test_passed,
                                              results |-> results])
    /\ passed' = test_passed
    /\ passed_count' = IF test_passed THEN passed_count + 1 ELSE passed_count
    /\ failed_count' = IF test_passed THEN failed_count ELSE failed_count + 1
    /\ pc' = "jira_worklog"
    /\ UNCHANGED <<jira_env, netVars, responses, gen, ti, ci, response, test_passed,
                   results, done_transition, histVars>>
    /\ UNCHANGED notRunner

JiraEntry(req, status) == [test |-> CurrentId, req |-> req, status |-> status,
                           passed |-> passed]

\* Variant: the transition is attempted whatever the verdict.
JiraWorklog_always ==
    /\ pc = "jira_worklog"
    /\ \E st \in WorklogStatuses :
          jira_log' = Append(jira_log, JiraEntry("worklog", st))
    /\ pc' = "jira_get"
    /\ UNCHANGED <<jira_env, netVars, responses, gen, caseVars, done_transition,
                   cmd_log, window_log>>
    /\ UNCHANGED notRunner

\* update_jira_task, lines 303-315: the worklog POST answers with a status
JiraWorklog ==
    /\ pc = "jira_worklog"
    /\ \E st \in WorklogStatuses :
          jira_log' = Append(jira_log, JiraEntry("worklog", st))
    /\ pc' = IF passed THEN "jira_get" ELSE "delay"
    /\ UNCHANGED <<jira_env, netVars, responses, gen, caseVars, done_transition,
                   cmd_log, window_log>>
    /\ UNCHANGED notRunner

\* the worklog POST raises; lines 351-352 end update_jira_task
JiraWorklogRaises ==
    /\ pc = "jira_worklog"
    /\ jira_log' = Append(jira_log, JiraEntry("worklog", RAISED))
    /\ pc' = "delay"
    /\ UNCHANGED <<jira_env, netVars, responses, gen, caseVars, done_transition,
                   cmd_log, window_log>>
    /\ UNCHANGED notRunner

\* update_jira_task, lines 317-331 and 348-349: the transitions GET answers
JiraTransitionsGet ==
    /\ pc = "jira_get"
    /\ \E st \in TransitionsGetStatuses, body \in TransitionLists :
          /\ st # 200 => body = <<>>
          /\ jira_log' = Append(jira_log,
                 [test |-> CurrentId, req |-> "transitions_get", status |-> st,
                  passed |-> passed, body |-> body])
          /\ done_transition' = IF st = 200 THEN FindDone(body) ELSE ""
          /\ pc' = IF st = 200 /\ FindDone(body) # "" THEN "jira_post" ELSE "delay"
    /\ UNCHANGED <<jira_env, netVars, responses, gen, caseVars, cmd_log, window_log>>
    /\ UNCHANGED notRunner

\* the transitions GET raises, or its body has no 'transitions' (KeyError)
JiraTransitionsGetRaises ==
    /\ pc = "jira_get"
    /\ jira_log' = Append(jira_log,
           [test |-> CurrentId, req |-> "transitions_get", status |-> RAISED,
            passed |-> passed, body |-> <<>>])
    /\ pc' = "delay"
    /\ UNCHANGED <<jira_env, netVars, responses, gen, caseVars, done_transition,
                   cmd_log, window_log>>
    /\ UNCHANGED notRunner

\* update_jira_task, lines 332-347: the transition POST, answered or raising
JiraTransitionPost ==
    /\ pc = "jira_post"
    /\ \E st \in TransitionPostStatuses \cup {RAISED} :
          jira_log' = Append(jira_log,
                 [test |-> CurrentId, req |-> "transition_post", status |-> st,
                  passed |-> passed, id |-> done_transition])
    /\ pc' = "delay"
    /\ UNCHANGED <<jira_env, netVars, responses, gen, caseVars, done_transition,
                   cmd_log, window_log>>
    /\ UNCHANGED notRunner

\* run_all_tests, lines 379-382: sleep(2), then the next test case
Delay ==
    /\ pc = "delay"
    /\ ti' = ti + 1
    /\ pc' = "loop"
    /\ UNCHANGED <<jira_env, netVars, responses, gen, ci, response, test_passed,
                   results, test_results, passed_count, failed_count, passed,
                   done_transition, histVars>>
    /\ UNCHANGED notRunner

\* run_all_tests, lines 388-415: summary, results file, loop_stop (joins the
\* network thread), disconnect
Summary ==
    /\ pc = "loop"
    /\ ti > NumTests
    /\ cb.pc = "idle"
    /\ conn' = "none"
    /\ subscribed' = FALSE
    /\ pc' = "done"
    /\ UNCHANGED <<jira_env, cb, delivered, responses, gen, caseVars,
                   done_transition, histVars>>
    /\ UNCHANGED notRunner

NetworkRunning == pc \notin {"off", "main", "exit1", "setup", "returned", "done"}

\* on_connect, lines 213-222
OnConnect ==
    /\ NetworkRunning
    /\ conn = "pending"
    /\ cb.pc = "idle"
    /\ \E rc \in {0, 5} :
          /\ conn' = IF rc = 0 THEN "accepted" ELSE "refused"
          /\ subscribed' = (rc = 0)
    /\ UNCHANGED <<jira_env, pc, cb, delivered, responses, gen, caseVars,
                   done_transition, histVars>>
    /\ UNCHANGED notRunner

\* on_message, line 227: the callback is entered and decodes the payload
OnMessageBegin ==
    /\ NetworkRunning
    /\ subscribed
    /\ cb.pc = "idle"
    /\ delivered < MaxMsgs
    /\ \E p \in Payloads :
          cb' = [pc |-> "decoded", payload |-> p, win |-> OpenWindow, ref |-> 0]
    /\ delivered' = delivered + 1
    /\ UNCHANGED <<jira_env, pc, conn, subscribed, responses, gen, caseVars,
                   done_transition, histVars>>
    /\ UNCHANGED notRunner

\* on_message, lines 227 and 230-231: the payload is not UTF-8
OnMessageDecodeError ==
    /\ NetworkRunning
    /\ subscribed
    /\ cb.pc = "idle"
    /\ delivered < MaxMsgs
    /\ delivered' = delivered + 1
    /\ UNCHANGED <<jira_env, pc, conn, subscribed, cb, responses, gen, caseVars,
                   done_transition, histVars>>
    /\ UNCHANGED notRunner

\* on_message, line 228: self.responses is read (the list object is fetched)
OnMessageLoad ==
    /\ cb.pc = "decoded"
    /\ cb' = [cb EXCEPT !.pc = "loaded", !.ref = gen]
    /\ UNCHANGED <<jira_env, pc, conn, subscribed, delivered, responses, gen,
                   caseVars, done_transition, histVars>>
    /\ UNCHANGED notRunner

\* on_message, line 228: .append(response) on the fetched list object; a list
\* that send_command has replaced meanwhile is no longer read by anyone
OnMessageAppend ==
    /\ cb.pc = "loaded"
    /\ responses' = IF cb.ref = gen
                    THEN Append(responses, [payload |-> cb.payload, win |-> cb.win])
                    ELSE responses
    /\ cb' = CbIdle
    /\ UNCHANGED <<jira_env, pc, conn, subscribed, delivered, gen, caseVars,
                   done_transition, histVars>>
    /\ UNCHANGED notRunner

NextRunner ==
    \/ MainEnvMissing
    \/ MainStart
    \/ SetupConnectRaises
    \/ SetupConnect
    \/ SetupReturn
    \/ RunTestCaseBegin
    \/ SendCommandReset
    \/ SendCommandPublish
    \/ SendCommandPublishRaises
    \/ SendCommandReturn
    \/ CheckResponse
    \/ RunTestCaseReturn
    \/ JiraWorklog
    \/ JiraWorklogRaises
    \/ JiraTransitionsGet
    \/ JiraTransitionsGetRaises
    \/ JiraTransitionPost
    \/ Delay
    \/ Summary
    \/ OnConnect
    \/ OnMessageBegin
    \/ OnMessageDecodeError
    \/ OnMessageLoad
    \/ OnMessageAppend



(***************************************************************************)
(* Properties of the acceptance test runner                                *)
(***************************************************************************)
\* The claim's own reading of one command's outcome.
TokenInResponse(tok, text) == Contains(lower(tok), lower(text))

CommandSatisfied(r, expected) ==
    /\ Len(r.response) > 0
    /\ \/ Len(expected) = 0
       \/ \E k \in 1..Len(expected) : TokenInResponse(expected[k], r.response)

\* C1: run_test_case reports a test case as passed if and only if every one
\* of its commands got a non-empty collected response that contains,
\* case-insensitively, at least one expected token (or the expected list is
\* empty); one command with an empty response or without an expected token
\* makes the whole test case failed.
C1_PassedIffEveryCommandSatisfied ==
    \A i \in 1..Len(test_results) :
        LET e == test_results[i]
            info == TEST_CASES[e.test]
        IN  /\ Len(e.results) = Len(info.commands)
            /\ e.passed <=> \A k \in 1..Len(e.results) :
                                CommandSatisfied(e.results[k], info.expected)

\* A two-command test case passed on case-insensitive matches, and a test
\* case failed on an empty response.
C1_Witness ==
    /\ Len(test_results) = 2
    /\ test_results[1].passed
    /\ Len(test_results[1].results) = 2
    /\ ~test_results[2].passed
    /\ test_results[2].results[1].response = <<>>

\* Every command of every test case, in definition order.
RECURSIVE AllCommandsFrom(_)
AllCommandsFrom(t) ==
    IF t > NumTests THEN <<>>
    ELSE [k \in 1..Len(TEST_CASES[TEST_IDS[t]].commands) |-> <<TEST_IDS[t], k>>]
         \o AllCommandsFrom(t + 1)

AllCommands == AllCommandsFrom(1)

PosOf(test, cmd) ==
    CHOOSE n \in 1..Len(AllCommands) : AllCommands[n] = <<test, cmd>>

IsPublish(e) == e.ev = "publish"
Published == SelectSeq(cmd_log, IsPublish)
PublishedPairs == [n \in 1..Len(Published) |-> <<Published[n].test, Published[n].cmd>>]

CheckFollowsPublish ==
    \A i \in 1..Len(cmd_log) :
        cmd_log[i].ev = "publish" =>
            IF i < Len(cmd_log)
            THEN /\ cmd_log[i + 1].ev = "check"
                 /\ cmd_log[i + 1].test = cmd_log[i].test
                 /\ cmd_log[i + 1].cmd = cmd_log[i].cmd
            ELSE pc \in {"wait", "check"}

\* C2 as stated: once setup has succeeded and the run is over, every command
\* of every test case has been published exactly once, in definition order,
\* each check completed before the next publish.
C2_EveryCommandPublishedOnce ==
    /\ CheckFollowsPublish
    /\ pc = "done" => PublishedPairs = AllCommands

\* C2, amended: commands are published in definition order, each at most
\* once, the check of a command completed before the next publish; every
\* command of a test case is published exactly once unless a publish call of
\* that test case raised, and then the commands from the raising one on are
\* not published and the runner goes on with the next test case.
C2_PublishedInOrderNoRetry ==
    /\ CheckFollowsPublish
    /\ \A i, j \in 1..Len(cmd_log) :
          (i < j /\ cmd_log[i].ev # "check" /\ cmd_log[j].ev # "check")
              => PosOf(cmd_log[i].test, cmd_log[i].cmd)
                    < PosOf(cmd_log[j].test, cmd_log[j].cmd)
    /\ pc = "done" =>
          \A n \in 1..Len(AllCommands) :
              LET t == AllCommands[n][1]
                  c == AllCommands[n][2]
              IN  (\E i \in 1..Len(cmd_log) :
                        /\ cmd_log[i].ev = "publish"
                        /\ cmd_log[i].test = t /\ cmd_log[i].cmd = c)
                  <=> ~ \E i \in 1..Len(cmd_log) :
                        /\ cmd_log[i].ev = "raise"
                        /\ cmd_log[i].test = t /\ cmd_log[i].cmd <= c

\* The run is over; the first test case had its first command published and
\* checked and lost its second to a raising publish; the next test case was
\* published all the same.
C2_Witness ==
    /\ pc = "done"
    /\ \E i \in 1..Len(cmd_log) :
          /\ cmd_log[i].ev = "raise" /\ cmd_log[i].test = TEST_IDS[1]
          /\ cmd_log[i].cmd = 2
    /\ \E i \in 1..Len(cmd_log) :
          cmd_log[i].ev = "check" /\ cmd_log[i].test = TEST_IDS[2]

\* C3: the response send_command returns holds only messages whose
\* on_message callback was entered after that call reset the buffer and
\* before the call returned; a message delivered outside every wait window
\* is in no recorded response.
C3_ResponseOnlyFromOwnWindow ==
    \A i \in 1..Len(window_log) :
        \A k \in 1..Len(window_log[i].wins) :
            window_log[i].wins[k] = window_log[i].call

HasDone(body) ==
    \E k \in 1..Len(body) : lower(body[k].name) = DONE_LOWER

IsWorklog(e) == e.req = "worklog"
Worklogs == SelectSeq(jira_log, IsWorklog)

C5_RunsWithoutJiraSettings ==
    jira_env # JIRA_VARS => pc # "exit1"

\* C5, amended: the issue-tracker settings are mandatory; when any of
\* JIRA_URL, JIRA_USER, JIRA_TOKEN is not configured the runner stops with
\* exit status 1 without connecting to the broker, publishing a command,
\* running a test case or calling the issue tracker; it connects and runs
\* test cases only when all three are configured.
C5_JiraSettingsRequired ==
    jira_env # JIRA_VARS =>
        /\ pc \in {"main", "exit1"}
        /\ conn = "none"
        /\ cmd_log = <<>>
        /\ test_results = <<>>
        /\ jira_log = <<>>
        /\ gen = 0

\* The runner has stopped with status 1 for a missing setting.
C5_Witness ==
    /\ pc = "exit1"
    /\ "JIRA_TOKEN" \notin jira_env
    /\ "JIRA_URL" \in jira_env

\* Attempts of test case t: run_test_case reached its first command.
Attempts(t) ==
    {i \in DOMAIN cmd_log : /\ cmd_log[i].test = TEST_IDS[t]
                            /\ cmd_log[i].cmd = 1
                            /\ cmd_log[i].ev \in {"publish", "raise"}}

\* C14: once MQTT setup has succeeded, every test case is attempted once and
\* counted once: between test cases passed_count + failed_count is the number
\* of test cases gone through, and at the summary it is the number of defined
\* test cases, whatever raised or failed on the way.
C14_EveryTestCountedOnce ==
    /\ pc = "loop" =>
          /\ passed_count + failed_count = ti - 1
          /\ \A t \in 1..NumTests :
                Cardinality(Attempts(t)) = (IF t < ti THEN 1 ELSE 0)
    /\ pc = "done" =>
          /\ passed_count + failed_count = NumTests
          /\ \A t \in 1..NumTests : Cardinality(Attempts(t)) = 1

\* The first test case raised in publish, the second one was run to its
\* verdict and its worklog POST failed; the summary was reached.
C14_Witness ==
    /\ pc = "done"
    /\ \E i \in DOMAIN cmd_log : cmd_log[i].ev = "raise" /\ cmd_log[i].test = TEST_IDS[1]
    /\ \E i \in DOMAIN test_results : test_results[i].test = TEST_IDS[NumTests]
    /\ \E i \in DOMAIN jira_log : jira_log[i].req = "worklog" /\ jira_log[i].status = 400

\* C15: a command is published only after the response topic subscription
\* has been issued, i.e. after on_connect ran with return code 0.
C15_SubscribedBeforePublish ==
    pc \in {"publish", "wait"} => subscribed

(***************************************************************************)
(* update-time-estimates.py                                                *)
(***************************************************************************)
\* Bounds: issues a search returns.
MaxTasks == 3
MaxTestTasks == 1

simple_keywords ==
    << <<"c","o","n","f","i","g","u","r","a","t","i","o","n">>,
       <<"b","a","s","i","c">>,
       <<"s","i","m","p","l","e">>,
       <<"f","l","a","g">>,
       <<"s","t","a","t","u","s">>,
       <<"g","e","t","t","e","r">>,
       <<"s","e","t","t","e","r">>,
       <<"v","a","l","i","d","a","t","i","o","n">> >>

complex_keywords ==
    << <<"p","r","o","t","o","c","o","l">>,
       <<"s","e","c","u","r","i","t","y">>,
       <<"e","n","c","r","y","p","t","i","o","n">>,
       <<"p","a","r","s","e","r">>,
       <<"h","a","n","d","l","e","r">>,
       <<"m","a","n","a","g","e","r">>,
       <<"s","y","s","t","e","m">>,
       <<"i","n","t","e","g","r","a","t","i","o","n">> >>

very_complex_keywords ==
    << <<"t","l","s">>,
       <<"s","s","l">>,
       <<"a","u","t","h","e","n","t","i","c","a","t","i","o","n">>,
       <<"r","e","g","i","s","t","r","a","t","i","o","n">>,
       <<"a","u","d","i","o">>,
       <<"c","o","d","e","c">>,
       <<"s","t","r","e","a","m","i","n","g">> >>

\* Summaries the issue tracker may hold.
SUM_TLS_HANDLER == <<"A","d","d"," ","T","L","S"," ","h","a","n","d","l","e","r">>
SUM_STATUS_FLAG == <<"S","t","a","t","u","s"," ","f","l","a","g">>
SUM_FIX_BUG == <<"F","i","x"," ","b","u","g">>
SUM_SUBSYSTEM == <<"S","u","b","s","y","s","t","e","m"," ","g","e","t","t","e","r">>

Summaries == {SUM_TLS_HANDLER, SUM_STATUS_FLAG, SUM_FIX_BUG, SUM_SUBSYSTEM}

\* response.json()['issues'] of the To Do search: ORDER BY key, so the keys
\* are distinct and increasing; the key of the i-th issue is i.
TaskLists ==
    UNION { { [i \in 1..n |-> [key |-> i, summary |-> f[i]]] :
                f \in [1..n -> Summaries] } : n \in 0..MaxTasks }

\* any(keyword in summary for keyword in keywords)
AnyKeyword(summary, keywords) ==
    \E k \in 1..Len(keywords) : Contains(keywords[k], summary)

\* Variant: the complex keywords are tested before the very complex ones.
CategoryOf_complexFirst(task) ==
    LET summary == lower(task.summary) IN
    IF AnyKeyword(summary, complex_keywords) THEN "complex"
    ELSE IF AnyKeyword(summary, very_complex_keywords) THEN "very_complex"
    ELSE IF AnyKeyword(summary, simple_keywords) THEN "simple"
    ELSE "medium"

\* lines 47-59: the list the categorization loop appends the task to
CategoryOf(task) ==
    LET summary == lower(task.summary) IN
    IF AnyKeyword(summary, very_complex_keywords) THEN "very_complex"
    ELSE IF AnyKeyword(summary, complex_keywords) THEN "complex"
    ELSE IF AnyKeyword(summary, simple_keywords) THEN "simple"
    ELSE "medium"

\* Variant: the update loop tests the simple keywords before the complex ones.
HoursOf_simpleFirst(task) ==
    LET summary == lower(task.summary) IN
    IF AnyKeyword(summary, very_complex_keywords) THEN very_complex_hours
    ELSE IF AnyKeyword(summary, simple_keywords) THEN simple_hours
    ELSE IF AnyKeyword(summary, complex_keywords) THEN complex_hours
    ELSE medium_hours

\* lines 124-134: the hours the update loop picks for the task
HoursOf(task) ==
    LET summary == lower(task.summary) IN
    IF AnyKeyword(summary, very_complex_keywords) THEN very_complex_hours
    ELSE IF AnyKeyword(summary, complex_keywords) THEN complex_hours
    ELSE IF AnyKeyword(summary, simple_keywords) THEN simple_hours
    ELSE medium_hours

\* round(num / den, 1) * 10 for num / den given in tenths: the nearest
\* integer, a tie going to the even one.  The script rounds a float; the two
\* agree for every distribution of fewer than 90 tasks over the tiers (with
\* more, a tie such as 1.05 is decided by the float's representation error).
RoundTenths(num, den) ==
    LET q == num \div den
        r == num % den
    IN  IF 2 * r > den \/ (2 * r = den /\ q % 2 = 1) THEN q + 1 ELSE q

\* Twice the base hours of a tier: 1.5, 2.5, 3.5, 4.5 (lines 68-71, 80-83).
BASE2_SIMPLE == 3
BASE2_MEDIUM == 5
BASE2_COMPLEX == 7
BASE2_VERY_COMPLEX == 9

\* The budget, in hours (line 76), and the test budget (line 178).
BUDGET_HOURS == 120
TEST_BUDGET_HOURS == 20

\* lines 68-71: 2 * estimated_total
EstimatedTotal2 ==
    Len(simple_tasks) * BASE2_SIMPLE + Len(medium_tasks) * BASE2_MEDIUM
    + Len(complex_tasks) * BASE2_COMPLEX + Len(very_complex_tasks) * BASE2_VERY_COMPLEX

\* lines 76 and 80-83: round(base * scaling_factor, 1), in tenths, where
\* scaling_factor = 120 / estimated_total, or 1 when estimated_total is 0
ScaledHours(base2) ==
    IF EstimatedTotal2 > 0
    THEN RoundTenths(base2 * BUDGET_HOURS * 10, EstimatedTotal2)
    ELSE RoundTenths(base2 * 10, 2)

EstRest ==
    /\ todo_tasks = <<>>
    /\ cat_i = 1
    /\ simple_tasks = <<>>
    /\ medium_tasks = <<>>
    /\ complex_tasks = <<>>
    /\ very_complex_tasks = <<>>
    /\ simple_hours = 0
    /\ medium_hours = 0
    /\ complex_hours = 0
    /\ very_complex_hours = 0
    /\ total_hours = 0
    /\ upd_i = 1
    /\ success_count = 0
    /\ test_tasks = <<>>
    /\ test_hours_per_task = 0
    /\ test_i = 1
    /\ test_success_count = 0
    /\ http_log = <<>>
    /\ printed = <<>>

EstInit == est_pc = "search_todo" /\ EstRest
EstIdle == est_pc = "off" /\ EstRest

listVars == <<simple_tasks, medium_tasks, complex_tasks, very_complex_tasks>>
hourVars == <<simple_hours, medium_hours, complex_hours, very_complex_hours,
              total_hours>>
testVars == <<test_tasks, test_hours_per_task, test_i, test_success_count>>

\* lines 18-30: the To Do search fails; the status is printed and exit(1)
SearchTodoFails ==
    /\ est_pc = "search_todo"
    /\ \E st \in {401, 500} :
          /\ http_log' = Append(http_log, [call |-> "search_todo", key |-> 0,
                                           hours |-> 0, status |-> st])
          /\ printed' = Append(printed, [call |-> "search_todo", key |-> 0,
                                         status |-> st])
    /\ est_pc' = "exit1"
    /\ UNCHANGED <<todo_tasks, cat_i, listVars, hourVars, upd_i, success_count, testVars>>
    /\ UNCHANGED notEstimator

\* lines 18-33: the To Do search answers 200 with its issues
SearchTodo ==
    /\ est_pc = "search_todo"
    /\ \E tasks \in TaskLists : todo_tasks' = tasks
    /\ http_log' = Append(http_log, [call |-> "search_todo", key |-> 0,
                                     hours |-> 0, status |-> 200])
    /\ est_pc' = "categorize"
    /\ UNCHANGED <<cat_i, listVars, hourVars, upd_i, success_count, testVars, printed>>
    /\ UNCHANGED notEstimator

\* lines 46-59: one pass of the categorization loop
Categorize ==
    /\ est_pc = "categorize"
    /\ cat_i <= Len(todo_tasks)
    /\ LET task == todo_tasks[cat_i]
           c == CategoryOf(task)
       IN  /\ very_complex_tasks' = IF c = "very_complex"
                                    THEN Append(very_complex_tasks, task)
                                    ELSE very_complex_tasks
           /\ complex_tasks' = IF c = "complex" THEN Append(complex_tasks, task)
                               ELSE complex_tasks
           /\ simple_tasks' = IF c = "simple" THEN Append(simple_tasks, task)
                              ELSE simple_tasks
           /\ medium_tasks' = IF c = "medium" THEN Append(medium_tasks, task)
                              ELSE medium_tasks
    /\ cat_i' = cat_i + 1
    /\ UNCHANGED <<est_pc, todo_tasks, hourVars, upd_i, success_count, testVars,
                   http_log, printed>>
    /\ UNCHANGED notEstimator

\* lines 67-116: scaling factor, per-tier hours, total
Scale ==
    /\ est_pc = "categorize"
    /\ cat_i > Len(todo_tasks)
    /\ simple_hours' = ScaledHours(BASE2_SIMPLE)
    /\ medium_hours' = ScaledHours(BASE2_MEDIUM)
    /\ complex_hours' = ScaledHours(BASE2_COMPLEX)
    /\ very_complex_hours' = ScaledHours(BASE2_VERY_COMPLEX)
    /\ total_hours' = Len(simple_tasks) * ScaledHours(BASE2_SIMPLE)
                      + Len(medium_tasks) * ScaledHours(BASE2_MEDIUM)
                      + Len(complex_tasks) * ScaledHours(BASE2_COMPLEX)
                      + Len(very_complex_tasks) * ScaledHours(BASE2_VERY_COMPLEX)
    /\ est_pc' = "update"
    /\ UNCHANGED <<todo_tasks, cat_i, listVars, upd_i, success_count, testVars,
                   http_log, printed>>
    /\ UNCHANGED notEstimator

\* Variant: the update loop ends at the first failed PUT.
UpdatePut_break ==
    /\ est_pc = "update"
    /\ upd_i <= Len(todo_tasks)
    /\ \E st \in {204, 400} :
          LET task == todo_tasks[upd_i] IN
          /\ http_log' = Append(http_log, [call |-> "put_todo", key |-> task.key,
                                           hours |-> HoursOf(task), status |-> st])
          /\ success_count' = IF st = 204 THEN success_count + 1 ELSE success_count
          /\ printed' = IF st = 204 THEN printed
                        ELSE Append(printed, [call |-> "put_todo", key |-> task.key,
                                              status |-> st])
          /\ upd_i' = IF st = 204 THEN upd_i + 1 ELSE Len(todo_tasks) + 1
    /\ UNCHANGED <<est_pc, todo_tasks, cat_i, listVars, hourVars, testVars>>
    /\ UNCHANGED notEstimator

\* lines 122-155: one pass of the update loop
UpdatePut ==
    /\ est_pc = "update"
    /\ upd_i <= Len(todo_tasks)
    /\ \E st \in {204, 400} :
          LET task == todo_tasks[upd_i] IN
          /\ http_log' = Append(http_log, [call |-> "put_todo", key |-> task.key,
                                           hours |-> HoursOf(task), status |-> st])
          /\ success_count' = IF st = 204 THEN success_count + 1 ELSE success_count
          /\ printed' = IF st = 204 THEN printed
                        ELSE Append(printed, [call |-> "put_todo", key |-> task.key,
                                              status |-> st])
    /\ upd_i' = upd_i + 1
    /\ UNCHANGED <<est_pc, todo_tasks, cat_i, listVars, hourVars, testVars>>
    /\ UNCHANGED notEstimator

\* lines 157-173: the Acceptance Test search fails; nothing is printed for
\* it and the script goes to its last line
SearchTestFails ==
    /\ est_pc = "update"
    /\ upd_i > Len(todo_tasks)
    /\ \E st \in {401, 500} :
          http_log' = Append(http_log, [call |-> "search_test", key |-> 0,
                                        hours |-> 0, status |-> st])
    /\ est_pc' = "done"
    /\ UNCHANGED <<todo_tasks, cat_i, listVars, hourVars, upd_i, success_count,
                   testVars, printed>>
    /\ UNCHANGED notEstimator

\* lines 157-182: the Acceptance Test search answers 200; 20 hours are
\* spread over its issues
SearchTest ==
    /\ est_pc = "update"
    /\ upd_i > Len(todo_tasks)
    /\ \E n \in 0..MaxTestTasks :
          /\ test_tasks' = [i \in 1..n |-> [key |-> 100 + i]]
          /\ test_hours_per_task' =
                IF n > 0 THEN RoundTenths(TEST_BUDGET_HOURS * 10, n) ELSE 0
    /\ http_log' = Append(http_log, [call |-> "search_test", key |-> 0,
                                     hours |-> 0, status |-> 200])
    /\ est_pc' = "update_test"
    /\ UNCHANGED <<todo_tasks, cat_i, listVars, hourVars, upd_i, success_count,
                   test_i, test_success_count, printed>>
    /\ UNCHANGED notEstimator

\* lines 183-203: one pass of the test update loop
UpdateTestPut ==
    /\ est_pc = "update_test"
    /\ test_i <= Len(test_tasks)
    /\ \E st \in {204, 400} :
          LET task == test_tasks[test_i] IN
          /\ http_log' = Append(http_log, [call |-> "put_test", key |-> task.key,
                                           hours |-> test_hours_per_task,
                                           status |-> st])
          /\ test_success_count' = IF st = 204 THEN test_success_count + 1
                                   ELSE test_success_count
          /\ printed' = IF st = 204 THEN printed
                        ELSE Append(printed, [call |-> "put_test", key |-> task.key,
                                              status |-> st])
    /\ test_i' = test_i + 1
    /\ UNCHANGED <<est_pc, todo_tasks, cat_i, listVars, hourVars, upd_i,
                   success_count, test_tasks, test_hours_per_task>>
    /\ UNCHANGED notEstimator

\* lines 205-207
Finish ==
    /\ est_pc = "update_test"
    /\ test_i > Len(test_tasks)
    /\ est_pc' = "done"
    /\ UNCHANGED <<todo_tasks, cat_i, listVars, hourVars, upd_i, success_count,
                   testVars, http_log, printed>>
    /\ UNCHANGED notEstimator

NextEstimator ==
    \/ SearchTodoFails
    \/ SearchTodo
    \/ Categorize
    \/ Scale
    \/ UpdatePut
    \/ SearchTestFails
    \/ SearchTest
    \/ UpdateTestPut
    \/ Finish

(***************************************************************************)
(* Properties of the time estimate updater                                 *)
(***************************************************************************)
IsTodoPut(e) == e.call = "put_todo"
IsTestPut(e) == e.call = "put_test"
IsSearchTest(e) == e.call = "search_test"
IsFailedPut(e) == e.call \in {"put_todo", "put_test"} /\ e.status # 204
TodoPuts == SelectSeq(http_log, IsTodoPut)
TestPuts == SelectSeq(http_log, IsTestPut)
Stopped == est_pc \in {"exit1", "done"}

\* C6 as stated: no failed HTTP response makes the script stop before it has
\* attempted the update of every fetched task and the acceptance-test phase,
\* and every failed call has its status printed.
C6_EveryFailurePrintedAndContinued ==
    /\ Stopped => /\ Len(TodoPuts) = Len(todo_tasks)
                  /\ Len(SelectSeq(http_log, IsSearchTest)) = 1
    /\ \A i \in 1..Len(http_log) :
          http_log[i].status \notin {200, 204}
              => \E k \in 1..Len(printed) :
                    /\ printed[k].call = http_log[i].call
                    /\ printed[k].key = http_log[i].key
                    /\ printed[k].status = http_log[i].status

\* C6, amended: a failed update PUT (not 204) is handled by printing the
\* HTTP status and continuing with the next task and the acceptance-test
\* phase; a failed To Do search (not 200) prints the status and stops the
\* script with exit status 1 before any update and before the
\* acceptance-test phase; a failed Acceptance Test search (not 200) prints
\* nothing, skips the test-task updates and lets the script end normally.
C6_PutFailureContinuesSearchFailureStops ==
    /\ \A i \in 1..Len(http_log) :
          IsFailedPut(http_log[i]) =>
              /\ \E k \in 1..Len(printed) :
                    /\ printed[k].call = http_log[i].call
                    /\ printed[k].key = http_log[i].key
                    /\ printed[k].status = http_log[i].status
              /\ est_pc # "exit1"
    /\ est_pc = "done" =>
          /\ Len(TodoPuts) = Len(todo_tasks)
          /\ Len(SelectSeq(http_log, IsSearchTest)) = 1
          /\ LET st == SelectSeq(http_log, IsSearchTest)[1].status IN
             IF st = 200 THEN Len(TestPuts) = Len(test_tasks)
             ELSE /\ Len(TestPuts) = 0
                  /\ \A k \in 1..Len(printed) : printed[k].call # "search_test"
    /\ est_pc = "exit1" <=>
          (Len(http_log) = 1 /\ http_log[1].call = "search_todo"
                             /\ http_log[1].status # 200)
    /\ est_pc = "exit1" =>
          /\ printed = << [call |-> "search_todo", key |-> 0,
                          status |-> http_log[1].status] >>
          /\ Len(TodoPuts) = 0

\* The script ended normally although the first of three PUTs and the
\* Acceptance Test search failed.
C6_Witness ==
    /\ est_pc = "done"
    /\ Len(todo_tasks) = 3
    /\ TodoPuts[1].status = 400
    /\ TodoPuts[3].status = 204
    /\ http_log[Len(http_log)].call = "search_test"
    /\ http_log[Len(http_log)].status = 500

RECURSIVE SumHours(_)
SumHours(puts) ==
    IF puts = <<>> THEN 0 ELSE Head(puts).hours + SumHours(Tail(puts))

\* C7: the hour estimates written back to the fetched To Do sub-tasks sum to
\* at most 120 hours (1200 tenths), whatever the distribution of the tasks
\* over the four tiers.
C7_TotalWithinBudget ==
    /\ total_hours <= BUDGET_HOURS * 10
    /\ SumHours(TodoPuts) <= BUDGET_HOURS * 10

InList(task, list) == \E k \in 1..Len(list) : list[k] = task

\* Which keyword lists have a word in the lower-cased summary.
WordsIn ==
    [t \in Summaries |->
        [vc |-> \E k \in 1..Len(very_complex_keywords) :
                    Contains(very_complex_keywords[k], lower(t)),
         cx |-> \E k \in 1..Len(complex_keywords) :
                    Contains(complex_keywords[k], lower(t)),
         sm |-> \E k \in 1..Len(simple_keywords) :
                    Contains(simple_keywords[k], lower(t))]]

\* C8: the four tier lists partition the fetched tasks (each task
\* categorized so far is in exactly one list, once), with fixed precedence:
\* very complex keyword, else complex keyword, else simple keyword, else
\* medium.
C8_TiersPartitionWithPrecedence ==
    /\ Len(simple_tasks) + Len(medium_tasks) + Len(complex_tasks)
          + Len(very_complex_tasks) = cat_i - 1
    /\ est_pc \in {"update", "update_test", "done"} => cat_i - 1 = Len(todo_tasks)
    /\ \A i \in 1..(cat_i - 1) :
          LET task == todo_tasks[i]
              vc == WordsIn[task.summary].vc
              cx == WordsIn[task.summary].cx
              sm == WordsIn[task.summary].sm
          IN  /\ InList(task, very_complex_tasks) <=> vc
              /\ InList(task, complex_tasks) <=> (~vc /\ cx)
              /\ InList(task, simple_tasks) <=> (~vc /\ ~cx /\ sm)
              /\ InList(task, medium_tasks) <=> (~vc /\ ~cx /\ ~sm)

\* Categorization is over; a task with a very complex and a complex keyword,
\* one with a complex and a simple keyword, and one with no keyword were
\* fetched.
C8_Witness ==
    /\ est_pc = "update"
    /\ Len(todo_tasks) = 3
    /\ todo_tasks[1].summary = SUM_TLS_HANDLER
    /\ todo_tasks[2].summary = SUM_SUBSYSTEM
    /\ todo_tasks[3].summary = SUM_FIX_BUG

TierHours(task) ==
    IF InList(task, very_complex_tasks) THEN very_complex_hours
    ELSE IF InList(task, complex_tasks) THEN complex_hours
    ELSE IF InList(task, simple_tasks) THEN simple_hours
    ELSE medium_hours

Count204(puts) == Cardinality({k \in 1..Len(puts) : puts[k].status = 204})

\* C9: each fetched To Do sub-task receives exactly one update PUT, in fetch
\* order, carrying the per-task hours of the tier the categorization pass put
\* it in; a failed PUT neither skips nor duplicates a later PUT; the success
\* count is the number of PUTs answered 204.
C9_OnePutPerTaskInOrder ==
    /\ Len(TodoPuts) = upd_i - 1
    /\ Len(TodoPuts) <= Len(todo_tasks)
    /\ est_pc \in {"update_test", "done"} => Len(TodoPuts) = Len(todo_tasks)
    /\ \A k \in 1..Len(TodoPuts) :
          /\ TodoPuts[k].key = todo_tasks[k].key
          /\ TodoPuts[k].hours = TierHours(todo_tasks[k])
    /\ success_count = Count204(TodoPuts)

\* All three fetched tasks were sent a PUT although the first failed; the
\* tasks are of different tiers.
C9_Witness ==
    /\ est_pc = "done"
    /\ Len(todo_tasks) = 3
    /\ todo_tasks[1].summary = SUM_SUBSYSTEM
    /\ todo_tasks[2].summary = SUM_STATUS_FLAG
    /\ todo_tasks[3].summary = SUM_TLS_HANDLER
    /\ TodoPuts[1].status = 400
    /\ TodoPuts[2].status = 204
    /\ success_count = 2

(***************************************************************************)
(* script/generate_updates.py                                              *)
(***************************************************************************)
\* Bound: board directories under the build directory; board i is named i.
NumBoards == 2

NoFile == << <<"no file">> >>

\* VERSION files: a usual one; one with a comment line, no spaces round an
\* '=' and a key given twice; one without PATCHLEVEL; one with a line
\* holding two '='.
VERSION_USUAL ==
    << <<"V","E","R","S","I","O","N","_","M","A","J","O","R"," ","="," ","1","\n">>,
       <<"V","E","R","S","I","O","N","_","M","I","N","O","R"," ","="," ","2","\n">>,
       <<"P","A","T","C","H","L","E","V","E","L"," ","="," ","3","\n">>,
       <<"V","E","R","S","I","O","N","_","T","W","E","A","K"," ","="," ","0","\n">>,
       <<"E","X","T","R","A","V","E","R","S","I","O","N"," ","=","\n">> >>
VERSION_TWICE ==
    << <<"#"," ","r","e","l","e","a","s","e","\n">>,
       <<"V","E","R","S","I","O","N","_","M","A","J","O","R"," ","="," ","1","\n">>,
       <<"V","E","R","S","I","O","N","_","M","I","N","O","R","=","4","\n">>,
       <<"P","A","T","C","H","L","E","V","E","L"," ","="," ","0","\n">>,
       <<"V","E","R","S","I","O","N","_","M","I","N","O","R"," ","="," ","5">> >>
VERSION_NO_PATCH ==
    << <<"V","E","R","S","I","O","N","_","M","A","J","O","R"," ","="," ","1","\n">>,
       <<"V","E","R","S","I","O","N","_","M","I","N","O","R"," ","="," ","2","\n">> >>
VERSION_TWO_EQ ==
    << <<"V","E","R","S","I","O","N","_","M","A","J","O","R"," ","="," ","1","\n">>,
       <<"V","E","R","S","I","O","N","_","M","I","N","O","R"," ","="," ","2","\n">>,
       <<"P","A","T","C","H","L","E","V","E","L"," ","="," ","3","\n">>,
       <<"E","X","T","R","A","V","E","R","S","I","O","N"," ","="," ","a","=","b","\n">> >>

VersionFiles == {VERSION_USUAL, VERSION_TWICE, VERSION_NO_PATCH, VERSION_TWO_EQ}

KEY_MAJOR == <<"V","E","R","S","I","O","N","_","M","A","J","O","R">>
KEY_MINOR == <<"V","E","R","S","I","O","N","_","M","I","N","O","R">>
KEY_PATCH == <<"P","A","T","C","H","L","E","V","E","L">>

Whitespace == {" ", "\n", "\t"}

\* str.strip()
RECURSIVE strip(_)
strip(t) ==
    IF t = <<>> THEN t
    ELSE IF Head(t) \in Whitespace THEN strip(Tail(t))
    ELSE IF t[Len(t)] \in Whitespace THEN strip(SubSeq(t, 1, Len(t) - 1))
    ELSE t

\* str.split("=")
RECURSIVE split(_)
split(t) ==
    IF \E i \in 1..Len(t) : t[i] = "="
    THEN LET i == CHOOSE i \in 1..Len(t) :
                    t[i] = "=" /\ \A j \in 1..(i - 1) : t[j] # "="
         IN  <<SubSeq(t, 1, i - 1)>> \o split(SubSeq(t, i + 1, Len(t)))
    ELSE <<t>>

\* lines 28-33: version_vars after the lines from n on, starting from acc;
\* ok is FALSE when a line does not unpack into key and value (ValueError)
RECURSIVE read_version(_, _, _)
read_version(lines, n, acc) ==
    IF n > Len(lines) THEN [ok |-> TRUE, vars |-> acc]
    ELSE IF \E i \in 1..Len(lines[n]) : lines[n][i] = "="
    THEN LET parts == split(strip(lines[n])) IN
         IF Len(parts) # 2 THEN [ok |-> FALSE, vars |-> acc]
         ELSE LET key == strip(parts[1])
                  val == strip(parts[2])
              IN  read_version(lines, n + 1,
                      [k \in DOMAIN acc \cup {key} |->
                          IF k = key THEN val ELSE acc[k]])
    ELSE read_version(lines, n + 1, acc)

NoVars == [k \in {} |-> <<>>]

\* line 35: "V{VERSION_MAJOR}.{VERSION_MINOR}.{PATCHLEVEL}".format(**version_vars)
format_version(version_vars) ==
    <<"V">> \o version_vars[KEY_MAJOR] \o <<".">> \o version_vars[KEY_MINOR]
            \o <<".">> \o version_vars[KEY_PATCH]

\* line 58: f"{board_name}_rapidreach-fw_{version}.bin"
target_filename(board_name, v) == <<board_name, "_rapidreach-fw_", v, ".bin">>

\* The two places a board's signed binary may be at (lines 46-47).
RapidFwPath(b) == <<b, "rapidreach-fw", "zephyr", "zephyr.signed.bin">>
ZephyrPath(b) == <<b, "zephyr", "zephyr.signed.bin">>

PkRest ==
    /\ version = <<>>
    /\ remaining = {}
    /\ out_files = {}
    /\ prepared_binaries = <<>>

\* The script is launched on some project tree.
PkInit ==
    /\ pk_pc = "start"
    /\ build_exists \in BOOLEAN
    /\ board_dirs \in SUBSET (1..NumBoards)
    /\ rapid_fw_bin \in SUBSET board_dirs
    /\ zephyr_bin \in SUBSET board_dirs
    /\ ~build_exists => board_dirs = {}
    /\ version_file \in VersionFiles \cup {NoFile}
    /\ out_dir_exists \in BOOLEAN
    /\ PkRest

PkIdle ==
    /\ pk_pc = "off"
    /\ build_exists = FALSE
    /\ board_dirs = {}
    /\ rapid_fw_bin = {}
    /\ zephyr_bin = {}
    /\ version_file = NoFile
    /\ out_dir_exists = FALSE
    /\ PkRest

treeVars == <<build_exists, board_dirs, rapid_fw_bin, zephyr_bin, version_file>>

\* lines 15-17
BuildDirMissing ==
    /\ pk_pc = "start"
    /\ ~build_exists
    /\ pk_pc' = "exit1"
    /\ UNCHANGED <<treeVars, out_dir_exists, version, remaining, out_files,
                   prepared_binaries>>
    /\ UNCHANGED notPackager

\* lines 19-22
NoBoards ==
    /\ pk_pc = "start"
    /\ build_exists
    /\ board_dirs = {}
    /\ pk_pc' = "exit1"
    /\ UNCHANGED <<treeVars, out_dir_exists, version, remaining, out_files,
                   prepared_binaries>>
    /\ UNCHANGED notPackager

\* Variant: the output directory is made before the VERSION file is looked for.
VersionFileMissing_after_mkdir ==
    /\ pk_pc = "start"
    /\ build_exists
    /\ board_dirs # {}
    /\ version_file = NoFile
    /\ out_dir_exists' = TRUE
    /\ pk_pc' = "exit1"
    /\ UNCHANGED <<treeVars, version, remaining, out_files, prepared_binaries>>
    /\ UNCHANGED notPackager

\* lines 24-26
VersionFileMissing ==
    /\ pk_pc = "start"
    /\ build_exists
    /\ board_dirs # {}
    /\ version_file = NoFile
    /\ pk_pc' = "exit1"
    /\ UNCHANGED <<treeVars, out_dir_exists, version, remaining, out_files,
                   prepared_binaries>>
    /\ UNCHANGED notPackager

VersionReadable ==
    LET r == read_version(version_file, 1, NoVars) IN
    r.ok /\ {KEY_MAJOR, KEY_MINOR, KEY_PATCH} \subseteq DOMAIN r.vars

\* lines 28-35: a line does not unpack (ValueError) or a key is missing
\* (KeyError); the script ends with a traceback
ReadVersionRaises ==
    /\ pk_pc = "start"
    /\ build_exists
    /\ board_dirs # {}
    /\ version_file # NoFile
    /\ ~VersionReadable
    /\ pk_pc' = "traceback"
    /\ UNCHANGED <<treeVars, out_dir_exists, version, remaining, out_files,
                   prepared_binaries>>
    /\ UNCHANGED notPackager

\* lines 28-40: the version is read and the output directory made
ReadVersion ==
    /\ pk_pc = "start"
    /\ build_exists
    /\ board_dirs # {}
    /\ version_file # NoFile
    /\ VersionReadable
    /\ version' = format_version(read_version(version_file, 1, NoVars).vars)
    /\ out_dir_exists' = TRUE
    /\ remaining' = board_dirs
    /\ pk_pc' = "boards"
    /\ UNCHANGED <<treeVars, out_files, prepared_binaries>>
    /\ UNCHANGED notPackager

\* shutil.copy2(bin_path, target_path): the target holds the source's content
copy2(files, bin_path, name) ==
    {f \in files : f.name # name} \cup {[name |-> name, content |-> bin_path]}

\* Variant: the fallback location is looked at first.
bin_path_of_zephyr_first(b) ==
    IF b \in zephyr_bin THEN ZephyrPath(b)
    ELSE IF b \in rapid_fw_bin THEN RapidFwPath(b)
    ELSE <<>>

\* lines 44-56: the binary chosen for a board, <<>> for None
bin_path_of(b) ==
    IF b \in rapid_fw_bin THEN RapidFwPath(b)
    ELSE IF b \in zephyr_bin THEN ZephyrPath(b)
    ELSE <<>>

\* lines 42-61: one pass of the board loop, the directory order being the
\* file system's
ProcessBoard ==
    /\ pk_pc = "boards"
    /\ \E b \in remaining :
          /\ bin_path_of(b) # <<>>
          /\ out_files' = copy2(out_files, bin_path_of(b), target_filename(b, version))
          /\ prepared_binaries' = Append(prepared_binaries, target_filename(b, version))
          /\ remaining' = remaining \ {b}
    /\ UNCHANGED <<pk_pc, treeVars, out_dir_exists, version>>
    /\ UNCHANGED notPackager

\* lines 54-56: no signed binary; continue
SkipBoard ==
    /\ pk_pc = "boards"
    /\ \E b \in remaining :
          /\ bin_path_of(b) = <<>>
          /\ remaining' = remaining \ {b}
    /\ UNCHANGED <<pk_pc, treeVars, out_dir_exists, version, out_files,
                   prepared_binaries>>
    /\ UNCHANGED notPackager

\* lines 63-69
Report ==
    /\ pk_pc = "boards"
    /\ remaining = {}
    /\ pk_pc' = "done"
    /\ UNCHANGED <<treeVars, out_dir_exists, version, remaining, out_files,
                   prepared_binaries>>
    /\ UNCHANGED notPackager

NextPackager ==
    \/ BuildDirMissing
    \/ NoBoards
    \/ VersionFileMissing
    \/ ReadVersionRaises
    \/ ReadVersion
    \/ ProcessBoard
    \/ SkipBoard
    \/ Report

(***************************************************************************)
(* Properties of the firmware packager                                     *)
(***************************************************************************)
\* The version string each readable VERSION file stands for.
ExpectedVersion ==
    IF version_file = VERSION_USUAL THEN <<"V","1",".","2",".","3">>
    ELSE IF version_file = VERSION_TWICE THEN <<"V","1",".","5",".","0">>
    ELSE <<>>

FilesOfBoard(b) == {f \in out_files : f.name[1] = b}

\* C10: when the packager has run through, every board directory that holds
\* a signed binary has exactly one output file, named
\* <board>_rapidreach-fw_V<VERSION_MAJOR>.<VERSION_MINOR>.<PATCHLEVEL>.bin,
\* copied from <board>/rapidreach-fw/zephyr/zephyr.signed.bin when that
\* exists and from <board>/zephyr/zephyr.signed.bin only otherwise; a board
\* with neither is skipped, has no output file, and the boards after it are
\* processed all the same.
C10_OneVersionedFilePerSignedBoard ==
    pk_pc = "done" =>
        /\ ExpectedVersion # <<>>
        /\ \A b \in board_dirs :
              IF b \in rapid_fw_bin \cup zephyr_bin
              THEN FilesOfBoard(b) =
                     { [name |-> <<b, "_rapidreach-fw_", ExpectedVersion, ".bin">>,
                        content |-> IF b \in rapid_fw_bin
                                    THEN <<b, "rapidreach-fw", "zephyr", "zephyr.signed.bin">>
                                    ELSE <<b, "zephyr", "zephyr.signed.bin">>] }
              ELSE FilesOfBoard(b) = {}
        /\ \A f \in out_files : f.name[1] \in board_dirs
        /\ Len(prepared_binaries) = Cardinality(out_files)

\* The packager has run through a tree with a board holding both binaries
\* and a board holding none, the version given twice in the VERSION file.
C10_Witness ==
    /\ pk_pc = "done"
    /\ version_file = VERSION_TWICE
    /\ \E b \in board_dirs : b \in rapid_fw_bin /\ b \in zephyr_bin
    /\ \E b \in board_dirs : b \notin rapid_fw_bin /\ b \notin zephyr_bin
    /\ Cardinality(out_files) = 1

\* One of the three precondition checks of lines 15-26 fails on this tree.
PreconditionMissing ==
    \/ ~build_exists
    \/ board_dirs = {}
    \/ version_file = NoFile

PkEnded == pk_pc \in {"exit1", "done", "traceback"}

\* C12: the packager ends with exit status 1 exactly when the build directory
\* is missing, or holds no board directory, or the VERSION file is missing;
\* the step that exits leaves the output directory as it found it (it is not
\* created), and no file has been copied.
C12_ExitOneBeforeAnyOutput ==
    /\ [](PkEnded /\ PreconditionMissing => pk_pc = "exit1")
    /\ [](pk_pc = "exit1" => /\ PreconditionMissing
                             /\ out_files = {}
                             /\ prepared_binaries = <<>>)
    /\ [][pk_pc' = "exit1" => /\ pk_pc = "start"
                              /\ out_dir_exists' = out_dir_exists
                              /\ out_files' = out_files]_vars

C12_Witness ==
    /\ pk_pc = "exit1"
    /\ build_exists
    /\ board_dirs # {}
    /\ rapid_fw_bin # {}
    /\ version_file = NoFile
    /\ ~out_dir_exists

(***************************************************************************)
(* mqtt/scripts/test_mqtt_emqx.py                                          *)
(*                                                                         *)
(* Two threads: main() and the paho network thread started by loop_start,  *)
(* which runs on_connect and on_disconnect.  They share self.connected     *)
(* without a lock, so every statement of on_connect is a step of its own.  *)
(***************************************************************************)
\* Bound: CONNACKs the broker sends during one run.
MaxConnacks == 2

TOPIC_HEARTBEAT == "rapidreach/heartbeat"
TOPIC_STATUS == "rapidreach/status"

\* connect, line 75: timeout = 10 (seconds); lines 77-78: steps of 0.5 s
TIMEOUT_SECONDS == 10
SLEEPS_PER_SECOND == 2

\* main, lines 138-144 and 150-156: a dict is the sequence of its items
heartbeat_msg ==
    << [key |-> "device_id", val |-> "rapidreach_test", quoted |-> TRUE],
       [key |-> "status", val |-> "alive", quoted |-> TRUE],
       [key |-> "uptime", val |-> "12345", quoted |-> FALSE],
       [key |-> "memory_free", val |-> "85", quoted |-> FALSE],
       [key |-> "signal_strength", val |-> "-67", quoted |-> FALSE] >>

status_msg ==
    << [key |-> "device_id", val |-> "rapidreach_test", quoted |-> TRUE],
       [key |-> "firmware_version", val |-> "1.0.0", quoted |-> TRUE],
       [key |-> "hardware_version", val |-> "rev_a", quoted |-> TRUE],
       [key |-> "temperature", val |-> "23.5", quoted |-> FALSE],
       [key |-> "battery_level", val |-> "87", quoted |-> FALSE] >>

\* datetime.now().isoformat(), line 97
Timestamps == {"2025-01-01T00:00:00", "2025-01-01T00:00:01"}

\* message['timestamp'] = timestamp, line 99
SetTimestamp(message, ts) ==
    LET item == [key |-> "timestamp", val |-> ts, quoted |-> TRUE] IN
    IF \E i \in DOMAIN message : message[i].key = "timestamp"
    THEN [i \in DOMAIN message |->
            IF message[i].key = "timestamp" THEN item ELSE message[i]]
    ELSE Append(message, item)

Quote(text) == <<"\"", text, "\"">>

\* json.dumps of one item, as tokens
ItemTokens(item) ==
    Quote(item.key) \o <<": ">> \o (IF item.quoted THEN Quote(item.val) ELSE <<item.val>>)

RECURSIVE ItemsTokens(_)
ItemsTokens(message) ==
    IF message = <<>> THEN <<>>
    ELSE IF Len(message) = 1 THEN ItemTokens(message[1])
    ELSE ItemTokens(message[1]) \o <<", ">> \o ItemsTokens(Tail(message))

\* json.dumps(message), line 100
json_dumps(message) == <<"{">> \o ItemsTokens(message) \o <<"}">>

SmRest ==
    /\ connected = FALSE
    /\ timeout = 0
    /\ sm_ret = "none"
    /\ sm_net = "stopped"
    /\ sm_link = "none"
    /\ connacks = 0
    /\ sm_subs = <<>>
    /\ rc0_seen = FALSE
    /\ polls = 0
    /\ sm_calls = <<>>
    /\ sm_pub_log = <<>>
    /\ interrupted = FALSE

\* main, line 127: the client object has been constructed
SmInit ==
    /\ sm_pc = "main"
    /\ SmRest

\* The script is not launched.
SmIdle ==
    /\ sm_pc = "off"
    /\ SmRest

smHist == <<rc0_seen, polls, sm_calls, sm_pub_log, interrupted>>
smNet == <<sm_net, sm_link, connacks, sm_subs>>

\* connect, lines 69-71 and 86-88: client.connect raises; main returns (129-131)
ConnectRaises ==
    /\ sm_pc = "main"
    /\ sm_ret' = "False"
    /\ sm_pc' = "failed"
    /\ UNCHANGED <<connected, timeout, smNet, smHist>>
    /\ UNCHANGED notSmoke

\* connect, lines 69-75: client.connect, loop_start, timeout = 10
Connect ==
    /\ sm_pc = "main"
    /\ sm_link' = "pending"
    /\ sm_net' = "idle"
    /\ timeout' = TIMEOUT_SECONDS * SLEEPS_PER_SECOND
    /\ sm_pc' = "wait_test"
    /\ UNCHANGED <<connected, sm_ret, connacks, sm_subs, smHist>>
    /\ UNCHANGED notSmoke

\* connect, line 76: while not self.connected and timeout > 0
ConnectWaitTest ==
    /\ sm_pc = "wait_test"
    /\ sm_pc' = IF ~connected /\ timeout > 0 THEN "wait_sleep" ELSE "wait_end"
    /\ UNCHANGED <<connected, timeout, sm_ret, smNet, smHist>>
    /\ UNCHANGED notSmoke

\* connect, lines 77-78: time.sleep(0.5); timeout -= 0.5
ConnectWaitSleep ==
    /\ sm_pc = "wait_sleep"
    /\ timeout' = timeout - 1
    /\ polls' = polls + 1
    /\ sm_pc' = "wait_test"
    /\ UNCHANGED <<connected, sm_ret, smNet, rc0_seen, sm_calls, sm_pub_log,
                   interrupted>>
    /\ UNCHANGED notSmoke

\* Variant: a timed out wait is reported as a connection.
ConnectTimeout_true ==
    /\ sm_pc = "wait_end"
    /\ ~connected
    /\ sm_ret' = "True"
    /\ sm_pc' = "heartbeat"
    /\ UNCHANGED <<connected, timeout, smNet, smHist>>
    /\ UNCHANGED notSmoke

\* connect, lines 80-82: return False; main returns (129-131)
ConnectTimeout ==
    /\ sm_pc = "wait_end"
    /\ ~connected
    /\ sm_ret' = "False"
    /\ sm_pc' = "failed"
    /\ UNCHANGED <<connected, timeout, smNet, smHist>>
    /\ UNCHANGED notSmoke

\* connect, line 84: return True; main goes on to line 145
ConnectReturn ==
    /\ sm_pc = "wait_end"
    /\ connected
    /\ sm_ret' = "True"
    /\ sm_pc' = "heartbeat"
    /\ UNCHANGED <<connected, timeout, smNet, smHist>>
    /\ UNCHANGED notSmoke

\* The call main is at: topic, message, and where main goes on afterwards.
CurrentCall ==
    IF sm_pc \in {"heartbeat", "heartbeat_publish"}
    THEN [topic |-> TOPIC_HEARTBEAT, message |-> heartbeat_msg, next |-> "sleep"]
    ELSE [topic |-> TOPIC_STATUS, message |-> status_msg, next |-> "listen"]

\* Variant: the message is published whatever the flag says.
PublishTestMessageCheck_unguarded ==
    /\ sm_pc \in {"heartbeat", "status"}
    /\ IF ~connected
       THEN /\ sm_calls' = Append(sm_calls, [topic |-> CurrentCall.topic,
                                             flag |-> FALSE, ret |-> TRUE])
            /\ \E ts \in Timestamps :
                 sm_pub_log' = Append(sm_pub_log,
                    [topic |-> CurrentCall.topic,
                     payload |-> json_dumps(SetTimestamp(CurrentCall.message, ts)),
                     subs |-> sm_subs])
            /\ sm_pc' = CurrentCall.next
       ELSE /\ sm_pc' = IF sm_pc = "heartbeat" THEN "heartbeat_publish"
                        ELSE "status_publish"
            /\ UNCHANGED <<sm_calls, sm_pub_log>>
    /\ UNCHANGED <<connected, timeout, sm_ret, smNet, rc0_seen, polls, interrupted>>
    /\ UNCHANGED notSmoke

\* publish_test_message, lines 92-94: the flag is read; False when it is not set
PublishTestMessageCheck ==
    /\ sm_pc \in {"heartbeat", "status"}
    /\ IF ~connected
       THEN /\ sm_calls' = Append(sm_calls, [topic |-> CurrentCall.topic,
                                             flag |-> FALSE, ret |-> FALSE])
            /\ sm_pc' = CurrentCall.next
       ELSE /\ sm_pc' = IF sm_pc = "heartbeat" THEN "heartbeat_publish"
                        ELSE "status_publish"
            /\ UNCHANGED sm_calls
    /\ UNCHANGED <<connected, timeout, sm_ret, smNet, rc0_seen, polls, sm_pub_log,
                   interrupted>>
    /\ UNCHANGED notSmoke

\* publish_test_message, lines 96-111: the payload is built and handed to
\* client.publish; result.rc is 0 when the broker connection is up
PublishTestMessagePublish ==
    /\ sm_pc \in {"heartbeat_publish", "status_publish"}
    /\ IF sm_link = "up"
       THEN /\ \E ts \in Timestamps :
                 sm_pub_log' = Append(sm_pub_log,
                    [topic |-> CurrentCall.topic,
                     payload |-> json_dumps(SetTimestamp(CurrentCall.message, ts)),
                     subs |-> sm_subs])
            /\ sm_calls' = Append(sm_calls, [topic |-> CurrentCall.topic,
                                             flag |-> TRUE, ret |-> TRUE])
       ELSE /\ sm_calls' = Append(sm_calls, [topic |-> CurrentCall.topic,
                                             flag |-> TRUE, ret |-> FALSE])
            /\ UNCHANGED sm_pub_log
    /\ sm_pc' = CurrentCall.next
    /\ UNCHANGED <<connected, timeout, sm_ret, smNet, rc0_seen, polls, interrupted>>
    /\ UNCHANGED notSmoke

\* main, line 147: time.sleep(1)
MainSleep ==
    /\ sm_pc = "sleep"
    /\ sm_pc' = "status"
    /\ UNCHANGED <<connected, timeout, sm_ret, smNet, smHist>>
    /\ UNCHANGED notSmoke

InTryBlock == sm_pc \in {"heartbeat", "heartbeat_publish", "sleep", "status",
                         "status_publish", "listen"}

Connecting == sm_pc \in {"main", "wait_test", "wait_sleep", "wait_end"}

\* main, lines 163-167: Ctrl+C inside the try block, the loop of line 163
\* included, goes to the finally clause
KeyboardInterrupt ==
    /\ InTryBlock
    /\ interrupted' = TRUE
    /\ sm_pc' = "finally"
    /\ UNCHANGED <<connected, timeout, sm_ret, smNet, rc0_seen, polls, sm_calls,
                   sm_pub_log>>
    /\ UNCHANGED notSmoke

\* main, line 129: Ctrl+C while connect() runs is caught by nothing
KeyboardInterruptInConnect ==
    /\ Connecting
    /\ interrupted' = TRUE
    /\ sm_pc' = "killed"
    /\ UNCHANGED <<connected, timeout, sm_ret, smNet, rc0_seen, polls, sm_calls,
                   sm_pub_log>>
    /\ UNCHANGED notSmoke

\* disconnect, lines 117-121, called from line 171: loop_stop joins the
\* network thread, so a running callback is finished first
Disconnect ==
    /\ sm_pc = "finally"
    /\ IF connected
       THEN /\ sm_net = "idle"
            /\ sm_net' = "stopped"
            /\ sm_link' = "none"
       ELSE UNCHANGED <<sm_net, sm_link>>
    /\ sm_pc' = "exited"
    /\ UNCHANGED <<connected, timeout, sm_ret, connacks, sm_subs, smHist>>
    /\ UNCHANGED notSmoke

\* The network thread lives from loop_start to the end of the process.
SmNetworkRunning ==
    /\ sm_pc \in {"wait_test", "wait_sleep", "wait_end", "heartbeat",
                  "heartbeat_publish", "sleep", "status", "status_publish",
                  "listen", "finally"}
    /\ sm_net # "stopped"

\* on_connect, lines 27-30 and 38-39: the CONNACK arrives, the callback is entered
SmOnConnect ==
    /\ SmNetworkRunning
    /\ sm_net = "idle"
    /\ sm_link = "pending"
    /\ connacks < MaxConnacks
    /\ connacks' = connacks + 1
    /\ \E rc \in {0, 5} :
          IF rc = 0
          THEN /\ sm_link' = "up"
               /\ sm_net' = "on_connect_31"
               /\ rc0_seen' = TRUE
          ELSE /\ sm_link' = "refused"
               /\ UNCHANGED <<sm_net, rc0_seen>>
    /\ UNCHANGED <<sm_pc, connected, timeout, sm_ret, sm_subs, polls, sm_calls,
                   sm_pub_log, interrupted>>
    /\ UNCHANGED notSmoke

\* on_connect, line 31: self.connected = True
OnConnectSetConnected ==
    /\ SmNetworkRunning
    /\ sm_net = "on_connect_31"
    /\ connected' = TRUE
    /\ sm_net' = "on_connect_34"
    /\ UNCHANGED <<sm_pc, timeout, sm_ret, sm_link, connacks, sm_subs, smHist>>
    /\ UNCHANGED notSmoke

\* on_connect, line 34: client.subscribe(TOPIC_HEARTBEAT)
OnConnectSubscribeHeartbeat ==
    /\ SmNetworkRunning
    /\ sm_net = "on_connect_34"
    /\ sm_subs' = Append(sm_subs, TOPIC_HEARTBEAT)
    /\ sm_net' = "on_connect_35"
    /\ UNCHANGED <<sm_pc, connected, timeout, sm_ret, sm_link, connacks, smHist>>
    /\ UNCHANGED notSmoke

\* on_connect, lines 35-36: client.subscribe(TOPIC_STATUS)
OnConnectSubscribeStatus ==
    /\ SmNetworkRunning
    /\ sm_net = "on_connect_35"
    /\ sm_subs' = Append(sm_subs, TOPIC_STATUS)
    /\ sm_net' = "idle"
    /\ UNCHANGED <<sm_pc, connected, timeout, sm_ret, sm_link, connacks, smHist>>
    /\ UNCHANGED notSmoke

\* on_disconnect, lines 62-65: the connection was refused or is lost; the
\* subscriptions of that connection are gone with it
OnDisconnect ==
    /\ SmNetworkRunning
    /\ sm_net = "idle"
    /\ sm_link \in {"up", "refused"}
    /\ connected' = FALSE
    /\ sm_link' = "down"
    /\ sm_subs' = <<>>
    /\ UNCHANGED <<sm_pc, timeout, sm_ret, sm_net, connacks, smHist>>
    /\ UNCHANGED notSmoke

\* loop_start, line 72: the network thread connects again after a loss
Reconnect ==
    /\ SmNetworkRunning
    /\ sm_net = "idle"
    /\ sm_link = "down"
    /\ connacks < MaxConnacks
    /\ sm_link' = "pending"
    /\ UNCHANGED <<sm_pc, connected, timeout, sm_ret, sm_net, connacks, sm_subs,
                   smHist>>
    /\ UNCHANGED notSmoke

\* The steps of connect() on the main thread.
ConnectSteps ==
    \/ ConnectRaises
    \/ Connect
    \/ ConnectWaitTest
    \/ ConnectWaitSleep
    \/ ConnectTimeout
    \/ ConnectReturn

NextSmoke ==
    \/ ConnectSteps
    \/ PublishTestMessageCheck
    \/ PublishTestMessagePublish
    \/ MainSleep
    \/ KeyboardInterrupt
    \/ KeyboardInterruptInConnect
    \/ Disconnect
    \/ SmOnConnect
    \/ OnConnectSetConnected
    \/ OnConnectSubscribeHeartbeat
    \/ OnConnectSubscribeStatus
    \/ OnDisconnect
    \/ Reconnect

\* The payload is a JSON object carrying every item of the message and a
\* timestamp item.
Carries(payload, message) ==
    /\ Len(payload) >= 2
    /\ payload[1] = "{"
    /\ payload[Len(payload)] = "}"
    /\ \A i \in DOMAIN message : Contains(ItemTokens(message[i]), payload)
    /\ \E ts \in Timestamps :
          Contains(<<"\"", "timestamp", "\"", ": ", "\"", ts, "\"">>, payload)

IsHeartbeat(m) == m.topic = TOPIC_HEARTBEAT /\ Carries(m.payload, heartbeat_msg)
IsStatus(m) == m.topic = TOPIC_STATUS /\ Carries(m.payload, status_msg)

\* A call with the flag not set returned False and published nothing.
UnsetFlagPublishesNothing ==
    \A i \in DOMAIN sm_calls :
        ~sm_calls[i].flag =>
            /\ sm_calls[i].ret = FALSE
            /\ \A j \in DOMAIN sm_pub_log : sm_pub_log[j].topic # sm_calls[i].topic

\* C11 as stated: once connect() has returned True and main listens, exactly
\* two messages have been published, the heartbeat payload and then the
\* status payload; a call made with the flag not set publishes nothing and
\* returns False.
C11_ExactlyTwoPublishes ==
    /\ sm_pc = "listen" =>
          /\ Len(sm_pub_log) = 2
          /\ IsHeartbeat(sm_pub_log[1])
          /\ IsStatus(sm_pub_log[2])
    /\ UnsetFlagPublishesNothing

\* C11, amended: messages are published only after connect() returned True;
\* at most the heartbeat payload and then the status payload, each at most
\* once, and each only by a call that found the flag set; when main listens
\* both calls have been made; main leaves the try block only when interrupted;
\* a call made with the flag not set publishes nothing and returns False.
C11_AtMostTwoPublishesGuardedByFlag ==
    /\ sm_pub_log # <<>> => sm_ret = "True"
    /\ \/ sm_pub_log = <<>>
       \/ Len(sm_pub_log) = 1 /\ (IsHeartbeat(sm_pub_log[1]) \/ IsStatus(sm_pub_log[1]))
       \/ Len(sm_pub_log) = 2 /\ IsHeartbeat(sm_pub_log[1]) /\ IsStatus(sm_pub_log[2])
    /\ \A j \in DOMAIN sm_pub_log :
          \E i \in DOMAIN sm_calls : /\ sm_calls[i].topic = sm_pub_log[j].topic
                                     /\ sm_calls[i].flag
                                     /\ sm_calls[i].ret
    /\ sm_pc = "listen" =>
          /\ Len(sm_calls) = 2
          /\ sm_calls[1].topic = TOPIC_HEARTBEAT
          /\ sm_calls[2].topic = TOPIC_STATUS
    /\ sm_pc \in {"finally", "exited"} => interrupted
    /\ UnsetFlagPublishesNothing

\* The connection was lost after connect() returned True: the heartbeat call
\* found the flag not set, the status call, after a reconnect, published.
C11_Witness ==
    /\ sm_pc = "listen"
    /\ Len(sm_pub_log) = 1
    /\ IsStatus(sm_pub_log[1])
    /\ \E i \in DOMAIN sm_calls : sm_calls[i].topic = TOPIC_HEARTBEAT /\ ~sm_calls[i].flag

\* C13: connect() ends after at most 20 iterations of its wait loop; it
\* returns True only if on_connect has run with rc = 0 (so not when every
\* CONNACK was a refusal, not on timeout, not when client.connect raised);
\* when it returns False main returns without a publish_test_message call.
C13_ConnectBoundedAndTruthful ==
    /\ [](polls <= 20)
    /\ [](sm_pc = "wait_sleep" => polls < 20)
    /\ [](sm_ret = "True" => rc0_seen)
    /\ [](sm_ret = "False" => /\ sm_pc = "failed"
                             /\ sm_calls = <<>>
                             /\ sm_pub_log = <<>>)
    /\ [](sm_pc = "failed" => sm_ret = "False")
    /\ <>(~Connecting)

\* The broker refused the connection and the wait ran to its 20th iteration.
C13_Witness ==
    /\ sm_pc = "failed"
    /\ sm_ret = "False"
    /\ polls = 20
    /\ connacks = 1
    /\ ~rc0_seen

SubscribedBoth(subs) ==
    /\ \E i \in DOMAIN subs : subs[i] = TOPIC_HEARTBEAT
    /\ \E i \in DOMAIN subs : subs[i] = TOPIC_STATUS

\* C16: whenever the connected flag is set, both subscriptions of the current
\* connection have been issued, and every message was published with both
\* subscriptions in place.
C16_ConnectedImpliesSubscribed ==
    /\ connected => SubscribedBoth(sm_subs)
    /\ \A j \in DOMAIN sm_pub_log : SubscribedBoth(sm_pub_log[j].subs)

(***************************************************************************)
(* Specifications: one script is launched, the others are not.             *)
(***************************************************************************)
InitRunner == RunnerInit /\ EstIdle /\ PkIdle /\ SmIdle
InitEstimator == RunnerIdle /\ EstInit /\ PkIdle /\ SmIdle
InitPackager == RunnerIdle /\ EstIdle /\ PkInit /\ SmIdle
InitSmoke == RunnerIdle /\ EstIdle /\ PkIdle /\ SmInit

SpecRunner == InitRunner /\ [][NextRunner]_vars
SpecEstimator == InitEstimator /\ [][NextEstimator]_vars
SpecPackager == InitPackager /\ [][NextPackager]_vars
SpecSmoke == InitSmoke /\ [][NextSmoke]_vars

\* The main thread is scheduled: a sleep returns and the next statement runs.
SpecSmokeFair == SpecSmoke /\ WF_vars(ConnectSteps)

Init == InitRunner \/ InitEstimator \/ InitPackager \/ InitSmoke
Next == NextRunner \/ NextEstimator \/ NextPackager \/ NextSmoke
Spec == Init /\ [][Next]_vars

====
